---- MODULE Spec2Model ----
(***************************************************************************)
(* A model of the RT repository: the OSM-to-scene pipeline of osm2xml.py   *)
(* (footprint extraction, translation, clipping, extrusion, scene files)   *)
(* and the signal compositor of RSSOverlay.py.                             *)
(*                                                                         *)
(* Five specifications share the module:                                   *)
(*   Spec         process_all_osm_files over a batch of areas              *)
(*   SpecTx       the transmitter placement of RT.py on one mask           *)
(*   SpecHeight   parse_height on one tag map                              *)
(*   SpecMesh     polygon_to_mesh on one ring                              *)
(*   SpecOverlay  overlay_rss_on_building on one power grid and one mask   *)
(* A specification leaves the variables of the others at their idle        *)
(* values.                                                                 *)
(***************************************************************************)
EXTENDS Integers, Sequences, FiniteSets, TLC

VARIABLES
    \* ---- overlay_rss_on_building (RSSOverlay.py) ----
    rss_data,        \* [tx -> [cell -> linear power in W]], the solver's grid
    building_array,  \* [cell -> gray value of the building PNG]
    total_rss_dbm,   \* [cell -> dBm value], after step 2
    rss_gray,        \* [cell -> uint8], after step 5 (before the mask)
    final_image,     \* [cell -> uint8], after step 6
    ov_pc,           \* "idle" | "start" | "done"
    \* ---- polygon_to_mesh (osm2xml.py, demo.py) ----
    vertices_2d,     \* the ring handed to polygon_to_mesh
    height,          \* the height handed to polygon_to_mesh
    mesh,            \* its result: None, or [vertices, faces]
    mesh_pc,         \* "idle" | "start" | "done"
    \* ---- parse_height (osm2xml.py, demo.py) ----
    h_tags,          \* the tag map handed to parse_height
    h_result,        \* the height it returns
    h_pc,            \* "idle" | "start" | "done"
    \* ---- process_all_osm_files (osm2xml.py) ----
    output_xml_dir,    \* argument: directory of the scene files
    output_meshes_dir, \* argument: directory of the meshes, "None" for the default
    osm_files,         \* number of .osm files glob finds; file a is area a
    file_idx,          \* position of the loop over sorted(osm_files)
    pc,                \* position inside process_all_osm_files
    origin,            \* projector origin: None, or [lat, lon]
    buildings,         \* handler.buildings: sequence of [verts, height]
    src_ways,          \* history: the way each entry of buildings came from
    clipped_buildings, \* sequence of [coords, height]
    clip_src,          \* history: index in buildings of each clipped polygon
    fs,                \* file system: [path -> content] for the files written
    written,           \* history: the paths in the order they were written
    outcome,           \* history: [area -> how process_single_file ended]
    dirs,              \* the directories os.makedirs created
    \* ---- transmitter placement (RT.py) ----
    building_mask,     \* [<<v, u>> -> BOOLEAN], TRUE where the PNG is 255
    tx_positions,      \* the positions chosen so far, each <<x, y>>
    tx_i,              \* index of the transmitter being placed
    attempt,           \* retries used for this transmitter
    draws,             \* history: uniform draws of a position so far
    scene_tx,          \* the transmitters added to the scene
    tx_pc,             \* "idle" | "place" | "fallback" | "placed" | "added" | "raised"
    \* ---- download_osm_tiles (download_osm.py) ----
    dl_files,          \* the tiles whose file NNNN.osm exists in output_dir
    dl_initial,        \* history: the tiles whose file existed at the call
    tile_count,        \* tiles named so far; the next tile is tile_count
    dl_attempt,        \* attempt of the retry loop for the next tile
    resp_log,          \* history: [tile -> the responses to its requests]
    success_count,     \* the counter the function returns
    dl_pc,             \* "idle" | "tiles" | "returned"
    \* ---- filter_and_renumber_osm_files (download_osm.py) ----
    osm_path,          \* the directory: [file name -> content]
    temp_dir,          \* osm_path/temp_valid: None, or [file name -> content]
    fr_initial,        \* history: the directory at the call
    all_osm,           \* the numerically named files, sorted
    valid_files,       \* the files judged valid, in the order of the scan
    fr_i,              \* position of the running loop
    fr_pc,             \* "idle" | "glob" | "scan" | "mkdir" | "to_temp" |
                       \* "clear" | "move_back" | "rmdir" | "returned"
    fr_return,         \* the value returned
    \* ---- the mask from generate_2d_map to is_point_in_building ----
    translated_polygons, \* the rings osmto2d.py rasterizes
    raster_img,               \* the raster: [<<row, col>> -> 0 | 1], or <<>>
    png,               \* the saved image: [<<row, col>> -> gray level], or <<>>
    loaded_mask,       \* RT.py's building_mask read from the image, or <<>>
    q_point,           \* the world point asked about, or None
    q_result,          \* what is_point_in_building returned, or None
    mk_pc              \* "idle" | "rasterize" | "save" | "load" | "query"

ov_vars == <<rss_data, building_array, total_rss_dbm, rss_gray, final_image, ov_pc>>
mesh_vars == <<vertices_2d, height, mesh, mesh_pc>>

height_vars == <<h_tags, h_result, h_pc>>

pipe_vars == <<output_xml_dir, output_meshes_dir, osm_files, file_idx, pc,
               origin, buildings, src_ways, clipped_buildings,
               clip_src, fs, written, outcome, dirs>>

tx_vars == <<building_mask, tx_positions, tx_i, attempt, draws, scene_tx, tx_pc>>

dl_vars == <<dl_files, dl_initial, tile_count, dl_attempt, resp_log, success_count, dl_pc>>

fr_vars == <<osm_path, temp_dir, fr_initial, all_osm, valid_files, fr_i, fr_pc, fr_return>>

mk_vars == <<translated_polygons, raster_img, png, loaded_mask, q_point, q_result, mk_pc>>

vars == <<ov_vars, mesh_vars, height_vars, pipe_vars,
         tx_vars, dl_vars, fr_vars, mk_vars>>

None == [none |-> TRUE]

(***************************************************************************)
(* Small helpers.                                                          *)
(***************************************************************************)
Min2(a, b) == IF a <= b THEN a ELSE b
Max2(a, b) == IF a >= b THEN a ELSE b

\* Division truncating toward zero, as a float -> integer cast does.
TruncDiv(n, d) == IF n >= 0 THEN n \div d ELSE -((-n) \div d)

RECURSIVE Pow10(_)
Pow10(k) == IF k = 0 THEN 1 ELSE 10 * Pow10(k - 1)

(***************************************************************************)
(* Floating point.  A power is a decimal float [m, e] of value m * 10^e    *)
(* with an 8-digit significand (10^7 <= m < 10^8, or m = 0 for zero).      *)
(* Addition aligns the smaller operand to the larger and truncates, so a   *)
(* much smaller addend is absorbed as in binary64.                         *)
(***************************************************************************)
FZero == [m |-> 0, e |-> 0]

\* d * 10^x for a leading digit d in 1..9
Flt(d, x) == [m |-> d * 10000000, e |-> x - 7]

FLess(a, b) ==
    IF b.m = 0 THEN FALSE
    ELSE IF a.m = 0 THEN TRUE
    ELSE a.e < b.e \/ (a.e = b.e /\ a.m < b.m)

FAdd(a, b) ==
    IF a.m = 0 THEN b
    ELSE IF b.m = 0 THEN a
    ELSE LET hi == IF a.e >= b.e THEN a ELSE b
             lo == IF a.e >= b.e THEN b ELSE a
             d  == hi.e - lo.e
             s  == hi.m + (IF d > 8 THEN 0 ELSE lo.m \div Pow10(d))
         IN  IF s >= 100000000
             THEN [m |-> s \div 10, e |-> hi.e + 1]
             ELSE [m |-> s, e |-> hi.e]

\* x / 1e-3
FDivMilli(a) == IF a.m = 0 THEN a ELSE [m |-> a.m, e |-> a.e + 3]

(***************************************************************************)
(* Decibels are carried in tenths of a dB.  A dB value is finite,          *)
(* [k |-> "fin", v |-> tenths], or one of the non-finite floats.           *)
(***************************************************************************)
Fin(v)  == [k |-> "fin", v |-> v]
NegInf  == [k |-> "-inf", v |-> 0]
NaN     == [k |-> "nan", v |-> 0]
IsFinite(x) == x.k = "fin"

\* Log10Table[k] = ceiling(1000 * 10^((k-1)/100)), k = 1..100
Log10Table ==
  << 1000, 1024, 1048, 1072, 1097, 1123, 1149, 1175, 1203, 1231,
     1259, 1289, 1319, 1349, 1381, 1413, 1446, 1480, 1514, 1549,
     1585, 1622, 1660, 1699, 1738, 1779, 1820, 1863, 1906, 1950,
     1996, 2042, 2090, 2138, 2188, 2239, 2291, 2345, 2399, 2455,
     2512, 2571, 2631, 2692, 2755, 2819, 2885, 2952, 3020, 3091,
     3163, 3236, 3312, 3389, 3468, 3549, 3631, 3716, 3802, 3891,
     3982, 4074, 4169, 4266, 4366, 4467, 4571, 4678, 4787, 4898,
     5012, 5129, 5249, 5371, 5496, 5624, 5755, 5889, 6026, 6166,
     6310, 6457, 6607, 6761, 6919, 7080, 7245, 7414, 7586, 7763,
     7944, 8129, 8318, 8512, 8710, 8913, 9121, 9333, 9550, 9773 >>

\* floor(100 * log10(s / 1000)) for a 4-digit significand s in 1000..9999
CentiLog(s) == Cardinality({k \in 1..100 : Log10Table[k] <= s}) - 1

\* 10 * np.log10(x), in tenths of a dB; log10(0) is -inf
TenLog10(x) ==
    IF x.m = 0 THEN NegInf
    ELSE Fin(100 * (x.e + 7) + CentiLog(x.m \div 10000))

(***************************************************************************)
(* overlay_rss_on_building (RSSOverlay.py).                                *)
(*                                                                         *)
(* The power grid and the building image have the same shape, one row of   *)
(* GridW cells, which is what the pipeline produces (a 1 m cell size over  *)
(* a map_size square against a map_size x map_size mask), so that          *)
(* scale_y = scale_x = 1.                                                  *)
(***************************************************************************)
NumTx == 2
GridW == 2

vmin == -180
vmax == -40
GrayFloor == 100
GrayCeil == 255
StructureValue == 255
StructureGray == 0

TxIds == 1..NumTx
Cells == {<<r, c>> : r \in {0}, c \in 0..(GridW - 1)}

\* Linear powers in W a solver cell may hold: 0, 5e-35, 1e-21 (-180 dBm),
\* 3e-14 (in band) and 1e-6 (-30 dBm).
PowerLevels == {FZero, Flt(5, -35), Flt(1, -21), Flt(3, -14), Flt(1, -6)}

\* Gray values of the building image: free ground, an intermediate gray,
\* structure.
PixelValues == {0, 128, StructureValue}

\* Step 1: np.sum(rss_data, axis=0), accumulated along the transmitter axis
RECURSIVE SumTx(_, _, _)
SumTx(data, c, t) ==
    IF t = 0 THEN FZero ELSE FAdd(SumTx(data, c, t - 1), data[t][c])

TotalRssLinear(data) == [c \in Cells |-> SumTx(data, c, NumTx)]

\* Mutants of step 2: no substitution for a zero cell; a floor of 1e-3
WhereNoFloor(p) == FDivMilli(p)
WhereFloorMilli(p) == IF p.m = 0 THEN Flt(1, -3) ELSE FDivMilli(p)

\* Step 2: np.where(total == 0, 1e-30, total / 1e-3)
WhereFloor(p) == IF p.m = 0 THEN Flt(1, -30) ELSE FDivMilli(p)

TotalRssDbm(data) ==
    [c \in Cells |-> TenLog10(WhereFloor(TotalRssLinear(data)[c]))]

\* Step 4: zoom(total_rss_dbm, (1, 1), order=3)[:H_bg, :W_bg].  At unit scale
\* the interpolating spline is evaluated at its own knots and returns the
\* samples; its prefilter runs over whole rows and columns, so one
\* non-finite sample leaves no finite value in the result.
Zoom(a) == IF \A c \in Cells : IsFinite(a[c]) THEN a ELSE [c \in Cells |-> NaN]

\* Step 5: (rss_resized - vmin) / (vmax - vmin), as a numerator over NormDen
NormDen == 10 * (vmax - vmin)
Normalize(x) == IF IsFinite(x) THEN Fin(x.v - 10 * vmin) ELSE x

\* Mutant of the clip: the value is passed on unclipped
ClipMissing(n) == n

\* np.clip(normalized, 0.0, 1.0); NaN stays NaN
Clip01(n) ==
    IF n.k = "nan" THEN n
    ELSE IF n.k = "-inf" THEN Fin(0)
    ELSE Fin(Max2(0, Min2(NormDen, n.v)))

\* (100 + (255 - 100) * normalized).astype(np.uint8); the cast of NaN is
\* whatever byte the build produces
ToGray(n, nan_byte) ==
    IF n.k = "nan" THEN nan_byte
    ELSE TruncDiv(GrayFloor * NormDen + (GrayCeil - GrayFloor) * n.v,
                  NormDen) % 256

RssGray(data, nan_byte) ==
    LET resized == Zoom(TotalRssDbm(data))
    IN  [c \in Cells |-> ToGray(Clip01(Normalize(resized[c])), nan_byte)]

\* Mutant of the mask: the black pixels are taken as structure
BuildingMaskInverted(img) == [c \in Cells |-> img[c] = 0]

\* Step 6: building_mask = (building_array == 255)
BuildingMask(img) == [c \in Cells |-> img[c] = StructureValue]

\* np.where(building_mask, 0, rss_gray)
FinalImage(mask, gray) ==
    [c \in Cells |-> IF mask[c] THEN StructureGray ELSE gray[c]]

DlIdle ==
    /\ dl_files = {} /\ dl_initial = {} /\ tile_count = 0 /\ dl_attempt = 0
    /\ resp_log = <<>> /\ success_count = 0 /\ dl_pc = "idle"

FrIdle ==
    /\ osm_path = <<>> /\ temp_dir = None /\ fr_initial = <<>>
    /\ all_osm = <<>> /\ valid_files = <<>> /\ fr_i = 0
    /\ fr_pc = "idle" /\ fr_return = None

MkIdle ==
    /\ translated_polygons = {} /\ raster_img = <<>> /\ png = <<>> /\ loaded_mask = <<>>
    /\ q_point = None /\ q_result = None /\ mk_pc = "idle"

OvIdle ==
    /\ rss_data = <<>> /\ building_array = <<>> /\ total_rss_dbm = <<>>
    /\ rss_gray = <<>> /\ final_image = <<>> /\ ov_pc = "idle"

MeshIdle ==
    /\ vertices_2d = <<>> /\ height = 0 /\ mesh = None /\ mesh_pc = "idle"

HeightIdle == h_tags = <<>> /\ h_result = None /\ h_pc = "idle"

TxIdle ==
    /\ building_mask = <<>> /\ tx_positions = <<>> /\ tx_i = 0 /\ attempt = 0
    /\ draws = 0 /\ scene_tx = <<>> /\ tx_pc = "idle"

PipeIdle ==
    /\ output_xml_dir = "" /\ output_meshes_dir = "" /\ osm_files = 0
    /\ file_idx = 0 /\ pc = "idle" /\ origin = None
    /\ buildings = <<>> /\ src_ways = <<>>
    /\ clipped_buildings = <<>> /\ clip_src = <<>>
    /\ fs = <<>> /\ written = <<>> /\ outcome = <<>> /\ dirs = {}

\* The inputs: a grid of the power levels and a building image.  The first
\* two transmitters and the first two cells are free; a further transmitter
\* repeats the second one's grid and a further cell the second cell.
FreeTx == 1..Min2(2, NumTx)
FreeCols == 0..(Min2(2, GridW) - 1)

InitOverlay ==
    /\ \E base \in [FreeTx -> [FreeCols -> PowerLevels]] :
          rss_data = [t \in TxIds |-> [c \in Cells |->
                        base[Min2(t, 2)][Min2(c[2], 1)]]]
    /\ \E img \in [FreeCols -> PixelValues] :
          building_array = [c \in Cells |-> img[Min2(c[2], 1)]]
    /\ total_rss_dbm = <<>>
    /\ rss_gray = <<>>
    /\ final_image = <<>>
    /\ ov_pc = "start"
    /\ MeshIdle /\ HeightIdle /\ PipeIdle /\ TxIdle /\ DlIdle /\ FrIdle /\ MkIdle

overlay_rss_on_building ==
    /\ ov_pc = "start"
    /\ total_rss_dbm' = TotalRssDbm(rss_data)
    /\ \E b \in (IF \A c \in Cells : IsFinite(TotalRssDbm(rss_data)[c])
                 THEN {0} ELSE 0..255) :
          /\ rss_gray' = RssGray(rss_data, b)
          /\ final_image' = FinalImage(BuildingMask(building_array),
                                       RssGray(rss_data, b))
    /\ ov_pc' = "done"
    /\ UNCHANGED <<rss_data, building_array>>
    /\ UNCHANGED <<mesh_vars, height_vars, pipe_vars, tx_vars, dl_vars, fr_vars, mk_vars>>

NextOverlay == overlay_rss_on_building

SpecOverlay == InitOverlay /\ [][NextOverlay]_vars

(***************************************************************************)
(* Properties of the compositor.                                           *)
(***************************************************************************)
OvDone == ov_pc = "done"
IsStructure(c) == building_array[c] = StructureValue

\* C2: every cell the building image marks as structure (255) is 0 in the
\* output image, whatever the power at that cell, and 0 lies outside the
\* signal band [100, 255].
C2_MaskPriority ==
    /\ StructureGray \notin GrayFloor..GrayCeil
    /\ OvDone => \A c \in Cells : IsStructure(c) => final_image[c] = StructureGray

\* a structure cell whose own signal would have rendered at full intensity
C2_Witness ==
    /\ OvDone
    /\ \E c \in Cells :
          IsStructure(c) /\ rss_gray[c] = GrayCeil /\ final_image[c] = StructureGray

\* C3: every cell not marked as structure has an output value in [100, 255],
\* for every grid of non-negative powers, those below vmin and above vmax
\* included.
C3_SignalBand ==
    OvDone => \A c \in Cells :
        ~IsStructure(c) => final_image[c] \in GrayFloor..GrayCeil

\* one free cell below vmin (of non-zero power) and one above vmax
C3_Witness ==
    /\ OvDone
    /\ \E c \in Cells :
          /\ ~IsStructure(c)
          /\ TotalRssLinear(rss_data)[c] # FZero
          /\ total_rss_dbm[c].v < 10 * vmin
          /\ final_image[c] = GrayFloor
    /\ \E c \in Cells :
          /\ ~IsStructure(c)
          /\ total_rss_dbm[c].v > 10 * vmax
          /\ final_image[c] = GrayCeil

\* The grid with transmitter t's power at cell c replaced by p
WithPower(data, t, c, p) == [data EXCEPT ![t][c] = p]

\* C8: raising the total linear power of one cell (all else equal) never
\* lowers that cell's intensity before the mask override; the step from zero
\* power to a positive power included.
C8_Monotone ==
    OvDone => \A c \in Cells, t \in TxIds, p \in PowerLevels :
        LET data2 == WithPower(rss_data, t, c, p)
        IN  FLess(TotalRssLinear(rss_data)[c], TotalRssLinear(data2)[c])
                => rss_gray[c] <= RssGray(data2, 0)[c]

\* a zero cell raised to a positive power whose dBm lies below the floor's,
\* and a cell whose intensity strictly rises with its power
C8_Witness ==
    /\ OvDone
    /\ \E c \in Cells, t \in TxIds, p \in PowerLevels :
          LET data2 == WithPower(rss_data, t, c, p)
          IN  /\ TotalRssLinear(rss_data)[c] = FZero
              /\ TotalRssLinear(data2)[c] # FZero
              /\ TotalRssDbm(data2)[c].v < total_rss_dbm[c].v
              /\ RssGray(data2, 0)[c] = rss_gray[c]
    /\ \E c \in Cells, t \in TxIds, p \in PowerLevels :
          LET data2 == WithPower(rss_data, t, c, p)
          IN  /\ FLess(TotalRssLinear(rss_data)[c], TotalRssLinear(data2)[c])
              /\ rss_gray[c] < RssGray(data2, 0)[c]

\* C9: a cell of zero total power enters the logarithm as the floor 1e-30,
\* every dBm value the compositor computes is finite, and the zero
\* cell, when it is not structure, renders at the floor of the band (100).
C9_ZeroPowerFloor ==
    OvDone =>
        /\ \A c \in Cells : IsFinite(total_rss_dbm[c])
        /\ \A c \in Cells :
              TotalRssLinear(rss_data)[c] = FZero =>
                 /\ total_rss_dbm[c] = Fin(-3000)
                 /\ ~IsStructure(c) => final_image[c] = GrayFloor

\* Scenario C: one transmitter, one cell at 0 W, the others at 1e-6 W
C9_Witness ==
    /\ OvDone
    /\ \E c \in Cells :
          /\ TotalRssLinear(rss_data)[c] = FZero
          /\ ~IsStructure(c)
          /\ final_image[c] = GrayFloor
          /\ \A d \in Cells \ {c} :
                /\ rss_data[1][d] = Flt(1, -6)
                /\ \A t \in TxIds \ {1} : rss_data[t][d] = FZero
                /\ ~IsStructure(d)
                /\ final_image[d] = GrayCeil

(***************************************************************************)
(* polygon_to_mesh (osm2xml.py 71-91, demo.py 62-86).                      *)
(*                                                                         *)
(* The mesh is the pair of arrays handed to trimesh.Trimesh: vertices, a   *)
(* function on the source's indices 0..2N-1, and faces, the list of index  *)
(* triples in the order the loops append them.                             *)
(***************************************************************************)
MaxRing == 4

\* Planar points a ring is drawn from, and the heights
RingPoints == {<<x, y>> : x \in 0..1, y \in 0..1}
Heights == {3, 10}

\* for i in range(1, N - 1): faces.append([0, i + 1, i])
FloorFaces(N) == [i \in 1..(N - 2) |-> <<0, i + 1, i>>]

\* for i in range(1, N - 1): faces.append([N, N + i, N + i + 1])
RoofFaces(N) == [i \in 1..(N - 2) |-> <<N, N + i, N + i + 1>>]

\* Mutant of the walls: j = i + 1, without the wrap to vertex 0
WallFacesNoWrap(N) ==
    [k \in 1..(2 * N) |->
        LET i == (k - 1) \div 2
            j == i + 1
        IN  IF k % 2 = 1 THEN <<i, j, N + j>> ELSE <<i, N + j, N + i>>]

\* for i in range(N): j = (i + 1) % N
\*     faces += [[i, j, N + j], [i, N + j, N + i]]
WallFaces(N) ==
    [k \in 1..(2 * N) |->
        LET i == (k - 1) \div 2
            j == (i + 1) % N
        IN  IF k % 2 = 1 THEN <<i, j, N + j>> ELSE <<i, N + j, N + i>>]

\* bottom = hstack([verts, zeros]); top = hstack([verts, full(height)]);
\* vertices = vstack([bottom, top])
MeshVertices(verts, h) ==
    LET N == Len(verts)
    IN  [v \in 0..(2 * N - 1) |->
            IF v < N THEN <<verts[v + 1][1], verts[v + 1][2], 0>>
            ELSE <<verts[v - N + 1][1], verts[v - N + 1][2], h>>]

polygon_to_mesh(verts, h) ==
    IF Len(verts) < 3 THEN None
    ELSE LET N == Len(verts)
         IN  [none |-> FALSE,
              vertices |-> MeshVertices(verts, h),
              faces |-> FloorFaces(N) \o RoofFaces(N) \o WallFaces(N)]

RECURSIVE SeqsUpTo(_, _)
SeqsUpTo(S, n) ==
    IF n = 0 THEN {<<>>}
    ELSE LET shorter == SeqsUpTo(S, n - 1)
         IN  shorter \cup {Append(q, x) : q \in {r \in shorter : Len(r) = n - 1},
                                          x \in S}

InitMesh ==
    /\ vertices_2d \in {r \in SeqsUpTo(RingPoints, MaxRing) : Len(r) >= 2}
    /\ height \in Heights
    /\ mesh = None
    /\ mesh_pc = "start"
    /\ OvIdle /\ HeightIdle /\ PipeIdle /\ TxIdle /\ DlIdle /\ FrIdle /\ MkIdle

Extrude ==
    /\ mesh_pc = "start"
    /\ mesh' = polygon_to_mesh(vertices_2d, height)
    /\ mesh_pc' = "done"
    /\ UNCHANGED <<vertices_2d, height>>
    /\ UNCHANGED <<ov_vars, height_vars, pipe_vars, tx_vars, dl_vars, fr_vars, mk_vars>>

NextMesh == Extrude

SpecMesh == InitMesh /\ [][NextMesh]_vars

\* The undirected edges of a face, and the number of faces using an edge
FaceEdges(f) == {{f[1], f[2]}, {f[2], f[3]}, {f[3], f[1]}}
EdgeUse(faces, e) == Cardinality({k \in DOMAIN faces : e \in FaceEdges(faces[k])})

FaceNormal(V, f) ==
    LET a == V[f[1]]
        u == <<V[f[2]][1] - a[1], V[f[2]][2] - a[2], V[f[2]][3] - a[3]>>
        w == <<V[f[3]][1] - a[1], V[f[3]][2] - a[2], V[f[3]][3] - a[3]>>
    IN  <<u[2] * w[3] - u[3] * w[2],
          u[3] * w[1] - u[1] * w[3],
          u[1] * w[2] - u[2] * w[1]>>

\* twice the signed area of a ring: > 0 counter-clockwise, < 0 clockwise
SignedArea2(ring) ==
    LET N == Len(ring)
        Term(i) == LET j == (i % N) + 1
                   IN  ring[i][1] * ring[j][2] - ring[j][1] * ring[i][2]
        RECURSIVE Sum(_)
        Sum(i) == IF i = 0 THEN 0 ELSE Term(i) + Sum(i - 1)
    IN  Sum(N)

\* a ring of distinct points that encloses an area (on RingPoints: a
\* triangle or the square, in either direction)
ProperRing(ring) ==
    /\ Len(ring) >= 3
    /\ Cardinality({ring[i] : i \in 1..Len(ring)}) = Len(ring)
    /\ SignedArea2(ring) # 0

\* the wall face f, whose first vertex is on the floor, faces away from the
\* ring's centroid c: n . (c - a) < 0, with N * c the sum of the ring
FacesOutward(ring, V, f) ==
    LET N == Len(ring)
        RECURSIVE SumX(_)
        SumX(i) == IF i = 0 THEN 0 ELSE ring[i][1] + SumX(i - 1)
        RECURSIVE SumY(_)
        SumY(i) == IF i = 0 THEN 0 ELSE ring[i][2] + SumY(i - 1)
        n == FaceNormal(V, f)
    IN  n[1] * (SumX(N) - N * V[f[1]][1]) + n[2] * (SumY(N) - N * V[f[1]][2]) < 0

\* C11: for a ring listed in either direction, every floor triangle has its
\* normal in -z, every roof triangle in +z, and every wall triangle away
\* from the interior.
C11_OutwardNormals ==
    (mesh_pc = "done" /\ ProperRing(vertices_2d)) =>
        LET N == Len(vertices_2d)
        IN  /\ \A k \in 1..(N - 2) :
                  FaceNormal(mesh.vertices, mesh.faces[k])[3] < 0
            /\ \A k \in (N - 1)..(2 * N - 4) :
                  FaceNormal(mesh.vertices, mesh.faces[k])[3] > 0
            /\ \A k \in (2 * N - 3)..Len(mesh.faces) :
                  /\ FaceNormal(mesh.vertices, mesh.faces[k])[3] = 0
                  /\ FacesOutward(vertices_2d, mesh.vertices, mesh.faces[k])

\* the same statement for rings listed counter-clockwise only
C11_OutwardNormalsCCW ==
    (mesh_pc = "done" /\ ProperRing(vertices_2d) /\ SignedArea2(vertices_2d) > 0)
        => C11_OutwardNormals

(***************************************************************************)
(* parse_height (osm2xml.py 53-69, demo.py 39-57).                         *)
(*                                                                         *)
(* A tag map is a function from tag keys to strings.  float() is modelled  *)
(* on a set of tag strings: the ones in FloatOf parse to the float given   *)
(* there, every other string raises ValueError.                            *)
(***************************************************************************)
default_height == 20
floor_height == 3

PosInf == [k |-> "inf", v |-> 0]

FloatOf ==
    ("12" :> Fin(12)) @@ ("2" :> Fin(2)) @@ ("0" :> Fin(0)) @@ ("-5" :> Fin(-5))
    @@ ("nan" :> NaN) @@ ("inf" :> PosInf)

TagStrings == DOMAIN FloatOf \cup {"abc"}

\* float(s): [ok |-> FALSE] stands for the ValueError
ParseFloat(s) ==
    IF s \in DOMAIN FloatOf THEN [ok |-> TRUE, val |-> FloatOf[s]]
    ELSE [ok |-> FALSE, val |-> NaN]

\* x > 0 on floats: false for NaN
GtZero(x) == x.k = "inf" \/ (x.k = "fin" /\ x.v > 0)

\* x * n for a float x and a positive number n
FTimes(x, n) == IF x.k = "fin" THEN Fin(x.v * n) ELSE x

\* Mutant: the explicit height is returned without the test h > 0
parse_height_unchecked(tags) ==
    IF "height" \in DOMAIN tags /\ ParseFloat(tags["height"]).ok
    THEN ParseFloat(tags["height"]).val
    ELSE IF /\ "building:levels" \in DOMAIN tags
            /\ ParseFloat(tags["building:levels"]).ok
            /\ GtZero(ParseFloat(tags["building:levels"]).val)
    THEN FTimes(ParseFloat(tags["building:levels"]).val, floor_height)
    ELSE Fin(default_height)

parse_height(tags) ==
    LET h_ok == /\ "height" \in DOMAIN tags
                /\ ParseFloat(tags["height"]).ok           \* no ValueError
                /\ GtZero(ParseFloat(tags["height"]).val)  \* if h > 0
        l_ok == /\ "building:levels" \in DOMAIN tags
                /\ ParseFloat(tags["building:levels"]).ok
                /\ GtZero(ParseFloat(tags["building:levels"]).val)
    IN  IF h_ok THEN ParseFloat(tags["height"]).val
        ELSE IF l_ok
             THEN FTimes(ParseFloat(tags["building:levels"]).val, floor_height)
             ELSE Fin(default_height)

\* The tag map with the given keys; an absent key is given as ""
MkTags(building, h, levels) ==
    (IF building = "" THEN <<>> ELSE "building" :> building)
    @@ (IF h = "" THEN <<>> ELSE "height" :> h)
    @@ (IF levels = "" THEN <<>> ELSE "building:levels" :> levels)

InitHeight ==
    /\ \E b \in {"", "yes"}, h \in TagStrings \cup {""},
          l \in TagStrings \cup {""} : h_tags = MkTags(b, h, l)
    /\ h_result = None
    /\ h_pc = "start"
    /\ OvIdle /\ MeshIdle /\ PipeIdle /\ TxIdle /\ DlIdle /\ FrIdle /\ MkIdle

ParseHeight ==
    /\ h_pc = "start"
    /\ h_result' = parse_height(h_tags)
    /\ h_pc' = "done"
    /\ UNCHANGED h_tags
    /\ UNCHANGED <<ov_vars, mesh_vars, pipe_vars, tx_vars, dl_vars, fr_vars, mk_vars>>

NextHeight == ParseHeight

SpecHeight == InitHeight /\ [][NextHeight]_vars

\* The rules of the height policy, on the tag strings
PositiveNumber(s) == s \in DOMAIN FloatOf /\ GtZero(FloatOf[s])
HeightRule(tags) == "height" \in DOMAIN tags /\ PositiveNumber(tags["height"])
LevelsRule(tags) ==
    "building:levels" \in DOMAIN tags /\ PositiveNumber(tags["building:levels"])

\* C5: the height is the 'height' tag when it parses to a number > 0,
\* otherwise 'building:levels' times the floor height when the level count
\* parses and is > 0, otherwise the default height; a parse failure or a
\* non-positive value falls through, and the result is > 0 for every tag map.
C5_HeightFallback ==
    h_pc = "done" =>
        /\ GtZero(h_result)
        /\ HeightRule(h_tags) => h_result = FloatOf[h_tags["height"]]
        /\ (~HeightRule(h_tags) /\ LevelsRule(h_tags)) =>
              h_result = FTimes(FloatOf[h_tags["building:levels"]], floor_height)
        /\ (~HeightRule(h_tags) /\ ~LevelsRule(h_tags)) =>
              h_result = Fin(default_height)

\* an unparsable height falls through to the level count: 2 levels, 6 m
C5_Witness ==
    /\ h_pc = "done"
    /\ "height" \in DOMAIN h_tags /\ h_tags["height"] = "abc"
    /\ "building:levels" \in DOMAIN h_tags /\ h_tags["building:levels"] = "2"
    /\ h_result = Fin(6)

(***************************************************************************)
(* process_all_osm_files (osm2xml.py).                                     *)
(*                                                                         *)
(* Coordinates are integers: a node's lat and lon are grid units and the   *)
(* projector's scale is one, so that a projected ring is a ring of grid    *)
(* points and map_size is MapSize grid units.  The rings of the model are  *)
(* axis-parallel.                                                          *)
(***************************************************************************)
NumAreas == 2   \* at most this many .osm files
MaxWays == 2    \* at most this many footprints accepted from one file
MapSize == 4    \* the argument map_size

Range(s) == {s[i] : i \in 1..Len(s)}
SetMin(S) == CHOOSE m \in S : \A n \in S : m <= n
SetMax(S) == CHOOSE m \in S : \A n \in S : m >= n
ButLast(s) == SubSeq(s, 1, Len(s) - 1)

\* ---- paths ----
\* A path is [dir, name]; os.path.join(dir, name) of a directory and a
\* relative name
Join(dir, name) == [dir |-> dir, name |-> name]
\* os.path.join(a, b) of two directories
JoinDir(a, b) == a \o "/" \o b
\* a relative path resolved against the directory that holds the file
\* naming it
Resolve(dir, rel) == [dir |-> JoinDir(dir, rel.dir), name |-> rel.name]

XmlDirs == {"./xml", "./scenes"}
MeshDirs == {"None", "./out"}

\* basename of the a-th file of sorted(osm_files), without its extension
basename(a) == "area" \o ToString(a)
building_filename(a) == basename(a) \o "_buildings.ply"
ground_filename(a) == basename(a) \o "_ground.ply"
xml_filename(a) == basename(a) \o ".xml"

\* ---- OSM input ----
Node(ref, lon, lat) == [ref |-> ref, valid |-> TRUE, lat |-> lat, lon |-> lon]
\* a node whose location is missing from the file
NoLoc(ref) == [ref |-> ref, valid |-> FALSE, lat |-> 0, lon |-> 0]

\* the closed way around the rectangle [x0,x1] x [y0,y1]
Rect(x0, y0, x1, y1) ==
    <<Node(1, x0, y0), Node(2, x1, y0), Node(3, x1, y1), Node(4, x0, y1),
      Node(1, x0, y0)>>

\* two towers joined above the window: [0,1]x[0,7], [2,3]x[0,7], [0,3]x[6,7]
Arch ==
    <<Node(1, 0, 0), Node(2, 1, 0), Node(3, 1, 6), Node(4, 2, 6),
      Node(5, 2, 0), Node(6, 3, 0), Node(7, 3, 7), Node(8, 0, 7),
      Node(1, 0, 0)>>

Way(tags, nodes) == [tags |-> tags, nodes |-> nodes]

\* The ways a file may hold
WayCatalogue ==
    { Way(MkTags("yes", "", ""), Rect(0, 0, 2, 2)),
      Way(MkTags("yes", "12", ""), Rect(0, 0, 6, 1)),
      Way(MkTags("yes", "", "2"), Rect(6, 6, 8, 8)),
      Way(MkTags("yes", "", ""), Rect(MapSize, 0, MapSize + 2, 2)),
      Way(MkTags("yes", "", ""), Arch),
      \* a square away from the least coordinates of the other ways
      Way(MkTags("yes", "", ""), Rect(1, 1, 3, 3)),
      \* closed, three node references, two points
      Way(MkTags("yes", "", ""),
          <<Node(1, 0, 0), Node(2, 2, 0), Node(1, 0, 0)>>),
      \* closed, three points on one line
      Way(MkTags("yes", "", ""),
          <<Node(1, 0, 0), Node(2, 2, 0), Node(3, 4, 0), Node(1, 0, 0)>>),
      \* a square with one node whose location is missing
      Way(MkTags("yes", "", ""),
          <<Node(1, 0, 0), Node(2, 2, 0), NoLoc(9), Node(3, 2, 2),
            Node(4, 0, 2), Node(1, 0, 0)>>),
      \* closed, two of three locations missing
      Way(MkTags("yes", "", ""),
          <<Node(1, 0, 0), NoLoc(2), NoLoc(3), Node(1, 0, 0)>>),
      \* open
      Way(MkTags("yes", "", ""),
          <<Node(1, 0, 0), Node(2, 2, 0), Node(3, 2, 2), Node(4, 0, 2)>>),
      \* closed but not a building
      Way(MkTags("", "", ""), Rect(0, 0, 2, 2)) }

\* The ways the a-th file may hold: the first file any way of the catalogue,
\* a later file a footprint inside the window, one with two points, or a way
\* that is not a building
WaysOf(a) ==
    IF a = 1 THEN WayCatalogue
    ELSE { Way(MkTags("yes", "", ""), Rect(0, 0, 2, 2)),
           Way(MkTags("yes", "", ""),
               <<Node(1, 0, 0), Node(2, 2, 0), Node(1, 0, 0)>>),
           Way(MkTags("", "", ""), Rect(0, 0, 2, 2)) }

\* the first valid node of a file, the projector's origin
Origins == {[lat |-> 0, lon |-> 0], [lat |-> 2, lon |-> 1]}

\* osmium's Way.is_closed(): the first and the last node reference agree
is_closed(w) == w.nodes[1].ref = w.nodes[Len(w.nodes)].ref

\* LocalProjector.project, at unit scale
project(o, lat, lon) == <<lon - o.lon, lat - o.lat>>

\* ---- geometry ----
\* Polygon(verts) closes a ring that is not closed
CloseRing(verts) ==
    IF verts[1] = verts[Len(verts)] THEN verts ELSE Append(verts, verts[1])

\* The unit cell [i,i+1] x [j,j+1] is named by its corner <<i, j>>.  The
\* centre of a cell is inside the ring when a ray from it crosses the ring
\* an odd number of times (coordinates doubled to keep them integers).
Inside(ring, c) ==
    LET cx == 2 * c[1] + 1
        cy == 2 * c[2] + 1
        Crosses(i) ==
            LET x1 == 2 * ring[i][1]
                y1 == 2 * ring[i][2]
                x2 == 2 * ring[i + 1][1]
                y2 == 2 * ring[i + 1][2]
                side == (x1 - cx) * (y2 - y1) + (cy - y1) * (x2 - x1)
            IN  /\ (y1 < cy) # (y2 < cy)
                /\ IF y2 > y1 THEN side > 0 ELSE side < 0
    IN  Cardinality({i \in 1..(Len(ring) - 1) : Crosses(i)}) % 2 = 1

\* the region of a ring, as the set of its unit cells
PolyCells(ring) ==
    LET xs == {ring[i][1] : i \in 1..Len(ring)}
        ys == {ring[i][2] : i \in 1..Len(ring)}
    IN  {c \in (SetMin(xs)..(SetMax(xs) - 1)) \X (SetMin(ys)..(SetMax(ys) - 1)) :
            Inside(ring, c)}

\* the points of the edge from p to q at half-unit steps (coordinates
\* doubled), p included and q not
EdgePoints(p, q) ==
    IF p[2] = q[2]
    THEN {<<x, 2 * p[2]>> :
            x \in (Min2(2 * p[1], 2 * q[1])..Max2(2 * p[1], 2 * q[1])) \ {2 * q[1]}}
    ELSE IF p[1] = q[1]
    THEN {<<2 * p[1], y>> :
            y \in (Min2(2 * p[2], 2 * q[2])..Max2(2 * p[2], 2 * q[2])) \ {2 * q[2]}}
    ELSE {<<2 * p[1], 2 * p[2]>>}

\* poly.is_valid: the ring has three distinct points and does not touch or
\* cross itself
is_valid(ring) ==
    /\ Cardinality(Range(ring)) >= 3
    /\ \A i, j \in 1..(Len(ring) - 1) :
          i < j => EdgePoints(ring[i], ring[i + 1])
                     \cap EdgePoints(ring[j], ring[j + 1]) = {}

\* poly.buffer(0) of an invalid ring; a ring that encloses no area gives the
\* empty polygon
buffer0(ring) == PolyCells(ring)

\* Mutant: the intersection with the window is the polygon itself
no_intersection(cells) == [area |-> cells, rest |-> FALSE]

\* Mutant: the intersection also cuts away the polygon's last column of cells
intersection_eroding(cells) ==
    LET x_max == SetMax({c[1] : c \in cells})
    IN  [area |-> {c \in cells : c[1] < MapSize /\ c[2] < MapSize /\ c[1] < x_max},
         rest |-> FALSE]

\* poly.intersection(clip_window).  The vertices are >= 0 after the
\* translation, so the window cuts along x = MapSize and y = MapSize only.
\* area: the cells of the polygon inside the window; rest: the polygon
\* also meets the window in a point or a segment of the window's border
\* that no cell of area touches.
intersection(cells) ==
    LET area == {c \in cells : c[1] < MapSize /\ c[2] < MapSize}
        Touches(p) == \E c \in cells :
                        c[1] \in {p[1] - 1, p[1]} /\ c[2] \in {p[2] - 1, p[2]}
        Covered(p) == \E c \in area :
                        c[1] \in {p[1] - 1, p[1]} /\ c[2] \in {p[2] - 1, p[2]}
        border == {<<MapSize, j>> : j \in 0..MapSize}
                    \cup {<<i, MapSize>> : i \in 0..MapSize}
    IN  [area |-> area,
         rest |-> \/ \E p \in border : Touches(p) /\ ~Covered(p)
                  \/ \E j \in 0..(MapSize - 1) :
                        <<MapSize, j>> \in cells /\ <<MapSize - 1, j>> \notin cells
                  \/ \E i \in 0..(MapSize - 1) :
                        <<i, MapSize>> \in cells /\ <<i, MapSize - 1>> \notin cells]

\* clipped.is_empty
is_empty(g) == g.area = {} /\ ~g.rest

Adjacent(c, d) ==
    \/ c[1] = d[1] /\ c[2] - d[2] \in {-1, 1}
    \/ c[2] = d[2] /\ c[1] - d[1] \in {-1, 1}

RECURSIVE Grow(_, _)
Grow(comp, cells) ==
    LET more == comp \cup {c \in cells : \E d \in comp : Adjacent(c, d)}
    IN  IF more = comp THEN comp ELSE Grow(more, cells)

MinPoint(S) ==
    CHOOSE p \in S : \A q \in S : p[1] < q[1] \/ (p[1] = q[1] /\ p[2] <= q[2])

\* the connected parts of a region, clipped.geoms
RECURSIVE geoms(_)
geoms(cells) ==
    IF cells = {} THEN <<>>
    ELSE LET comp == Grow({MinPoint(cells)}, cells)
         IN  <<comp>> \o geoms(cells \ comp)

\* clipped.geom_type
geom_type(g) ==
    IF g.area = {} THEN (IF g.rest THEN "LineString" ELSE "Empty")  \* or Point
    ELSE IF g.rest THEN "GeometryCollection"
    ELSE IF Len(geoms(g.area)) = 1 THEN "Polygon"
    ELSE "MultiPolygon"

\* the unit edges of the border of a part, the part on their right
BoundaryEdges(comp) ==
    UNION {
      (IF <<c[1] - 1, c[2]>> \notin comp
         THEN {<<c, <<c[1], c[2] + 1>>>>} ELSE {})
      \cup (IF <<c[1], c[2] + 1>> \notin comp
         THEN {<< <<c[1], c[2] + 1>>, <<c[1] + 1, c[2] + 1>> >>} ELSE {})
      \cup (IF <<c[1] + 1, c[2]>> \notin comp
         THEN {<< <<c[1] + 1, c[2] + 1>>, <<c[1] + 1, c[2]>> >>} ELSE {})
      \cup (IF <<c[1], c[2] - 1>> \notin comp
         THEN {<< <<c[1] + 1, c[2]>>, c >>} ELSE {})
      : c \in comp }

RECURSIVE Walk(_, _, _)
Walk(edges, start, path) ==
    LET e == CHOOSE e \in edges : e[1] = path[Len(path)]
    IN  IF e[2] = start THEN path
        ELSE Walk(edges, start, Append(path, e[2]))

\* part.exterior.coords: the border of the part from its least point, with
\* the points where it turns and the vertices of the ring it was cut from,
\* the first point repeated at the end
exterior_coords(comp, ring) ==
    LET edges == BoundaryEdges(comp)
        start == MinPoint({e[1] : e \in edges})
        path == Walk(edges, start, <<start>>)
        Dir(e) == <<e[2][1] - e[1][1], e[2][2] - e[1][2]>>
        Turns(p) == Dir(CHOOSE e \in edges : e[2] = p)
                      # Dir(CHOOSE e \in edges : e[1] = p)
        Kept(p) == Turns(p) \/ p \in Range(ring)
    IN  Append(SelectSeq(path, Kept), start)

\* One pass of the clipping loop (lines 169-191): the polygons one
\* footprint appends, each with the index src of the footprint
RECURSIVE PartsToCoords(_, _, _, _, _)
PartsToCoords(parts, k, ring, h, src) ==
    IF k > Len(parts) THEN <<>>
    ELSE LET coords == ButLast(exterior_coords(parts[k], ring))
         IN  (IF Len(coords) >= 3
                THEN <<[coords |-> coords, height |-> h, src |-> src]>>
                ELSE <<>>)
             \o PartsToCoords(parts, k + 1, ring, h, src)

clip_one(verts, h, src) ==
    LET ring == CloseRing(verts)
    IN  IF Len(ring) < 4 THEN <<>>      \* Polygon(verts) raises: continue
        ELSE LET cells == IF is_valid(ring) THEN PolyCells(ring)
                          ELSE buffer0(ring)
             IN  IF cells = {} THEN <<>>                \* poly.is_empty
                 ELSE LET clipped == intersection(cells)
                      IN  IF is_empty(clipped) THEN <<>>
                          ELSE IF geom_type(clipped) \in {"Polygon", "MultiPolygon"}
                          THEN PartsToCoords(geoms(clipped.area), 1, ring, h, src)
                          ELSE <<>>

RECURSIVE clip_loop(_, _)
clip_loop(tb, i) ==
    IF i > Len(tb) THEN <<>>
    ELSE clip_one(tb[i].verts, tb[i].height, i) \o clip_loop(tb, i + 1)

\* lines 153-161: the footprints moved so that the least x and the least y
\* are 0
translated_buildings(bs) ==
    LET all_x == UNION {{bs[i].verts[k][1] : k \in 1..Len(bs[i].verts)} :
                          i \in 1..Len(bs)}
        all_y == UNION {{bs[i].verts[k][2] : k \in 1..Len(bs[i].verts)} :
                          i \in 1..Len(bs)}
        x_min == SetMin(all_x)
        y_min == SetMin(all_y)
    IN  [i \in 1..Len(bs) |->
            [verts |-> [k \in 1..Len(bs[i].verts) |->
                          <<bs[i].verts[k][1] - x_min, bs[i].verts[k][2] - y_min>>],
             height |-> bs[i].height]]

\* ---- files ----
PlyFile(a, part) ==
    [kind |-> "ply", area |-> a, part |-> part, bsdfs |-> {}, shapes |-> <<>>]

\* lines 198-199: the meshes of the clipped polygons, None dropped
RECURSIVE meshes_of(_, _)
meshes_of(cb, k) ==
    IF k > Len(cb) THEN <<>>
    ELSE LET m == polygon_to_mesh(cb[k].coords, cb[k].height)
         IN  (IF m = None THEN <<>> ELSE <<m>>) \o meshes_of(cb, k + 1)

\* lines 221-247: the scene file, its materials and its two shapes
xml_content(a) ==
    [kind |-> "xml", area |-> a, part |-> "scene",
     bsdfs |-> {"mat-itu_concrete", "mat-itu_brick"},
     shapes |-> <<[id |-> "elm__2",
                   filename |-> Join("meshes", ground_filename(a)),
                   bsdf |-> "mat-itu_concrete"],
                  [id |-> "elm__4",
                   filename |-> Join("meshes", building_filename(a)),
                   bsdf |-> "mat-itu_concrete"]>>]

\* ---- the steps ----
Init ==
    /\ output_xml_dir \in XmlDirs
    /\ output_meshes_dir \in MeshDirs
    /\ osm_files \in 0..NumAreas
    /\ file_idx = 0
    /\ pc = "start"
    /\ origin = None
    /\ buildings = <<>> /\ src_ways = <<>>
    /\ clipped_buildings = <<>> /\ clip_src = <<>>
    /\ fs = <<>> /\ written = <<>> /\ dirs = {}
    /\ outcome = [a \in 1..osm_files |-> "pending"]
    /\ OvIdle /\ MeshIdle /\ HeightIdle /\ TxIdle /\ DlIdle /\ FrIdle /\ MkIdle

\* process_single_file returns: the loop goes to the next file
Return(o) ==
    /\ outcome' = [outcome EXCEPT ![file_idx] = o]
    /\ file_idx' = file_idx + 1
    /\ pc' = IF file_idx = osm_files THEN "done" ELSE "find_ref"
    /\ origin' = None
    /\ buildings' = <<>> /\ src_ways' = <<>>
    /\ clipped_buildings' = <<>> /\ clip_src' = <<>>

Write(path, content) ==
    /\ fs' = (path :> content) @@ fs
    /\ written' = Append(written, path)

\* lines 35-39 and 258-261
Start ==
    /\ pc = "start"
    /\ output_meshes_dir' = IF output_meshes_dir = "None"
                            THEN JoinDir(output_xml_dir, "meshes")
                            ELSE output_meshes_dir
    /\ dirs' = {output_xml_dir, output_meshes_dir'}
    /\ file_idx' = 1
    /\ pc' = IF osm_files = 0 THEN "done" ELSE "find_ref"
    /\ UNCHANGED <<output_xml_dir, osm_files, origin, buildings, src_ways, clipped_buildings, clip_src, fs, written, outcome>>
    /\ UNCHANGED <<ov_vars, mesh_vars, height_vars, tx_vars, dl_vars, fr_vars, mk_vars>>

\* lines 126-130: the file cannot be read
ReadFails ==
    /\ pc = "find_ref"
    /\ Return("read_failed")
    /\ UNCHANGED <<output_xml_dir, output_meshes_dir, osm_files, fs, written, dirs>>
    /\ UNCHANGED <<ov_vars, mesh_vars, height_vars, tx_vars, dl_vars, fr_vars, mk_vars>>

\* lines 132-134: no node of the file has a valid location
NoValidNode ==
    /\ pc = "find_ref"
    /\ Return("no_coordinates")
    /\ UNCHANGED <<output_xml_dir, output_meshes_dir, osm_files, fs, written, dirs>>
    /\ UNCHANGED <<ov_vars, mesh_vars, height_vars, tx_vars, dl_vars, fr_vars, mk_vars>>

\* lines 116-124, 136-137: the first valid node is the projector's origin
RefFound(o) ==
    /\ pc = "find_ref"
    /\ origin' = o
    /\ pc' = "ways"
    /\ UNCHANGED <<output_xml_dir, output_meshes_dir, osm_files, file_idx,
                   buildings, src_ways, clipped_buildings, clip_src,
                   fs, written, dirs, outcome>>
    /\ UNCHANGED <<ov_vars, mesh_vars, height_vars, tx_vars, dl_vars, fr_vars, mk_vars>>

\* BuildingHandler.way, lines 99-110
way(w) ==
    /\ pc = "ways"
    /\ Len(buildings) < MaxWays
    /\ IF "building" \notin DOMAIN w.tags \/ ~is_closed(w)
       THEN UNCHANGED <<buildings, src_ways>>
       ELSE LET valid_nodes == SelectSeq(w.nodes, LAMBDA n : n.valid)
                coords_latlon == [k \in 1..Len(valid_nodes) |->
                                    <<valid_nodes[k].lat, valid_nodes[k].lon>>]
                coords_2d == [k \in 1..Len(coords_latlon) |->
                                project(origin, coords_latlon[k][1],
                                        coords_latlon[k][2])]
            IN  IF Len(coords_latlon) < 3
                THEN UNCHANGED <<buildings, src_ways>>
                ELSE /\ buildings' = Append(buildings,
                            [verts |-> coords_2d, height |-> parse_height(w.tags)])
                     /\ src_ways' = Append(src_ways, w)
    /\ UNCHANGED <<output_xml_dir, output_meshes_dir, osm_files, file_idx, pc,
                   origin, clipped_buildings, clip_src, fs, written, dirs, outcome>>
    /\ UNCHANGED <<ov_vars, mesh_vars, height_vars, tx_vars, dl_vars, fr_vars, mk_vars>>

\* lines 138-142: handler.apply_file raises
ParseFails ==
    /\ pc = "ways"
    /\ Return("parse_failed")
    /\ UNCHANGED <<output_xml_dir, output_meshes_dir, osm_files, fs, written, dirs>>
    /\ UNCHANGED <<ov_vars, mesh_vars, height_vars, tx_vars, dl_vars, fr_vars, mk_vars>>

\* Mutant: the ground mesh is exported before the footprints are counted
NoBuildingsGroundFirst ==
    /\ pc = "ways"
    /\ buildings = <<>>
    /\ Write(Join(output_meshes_dir, ground_filename(file_idx)),
             PlyFile(file_idx, "ground"))
    /\ Return("no_buildings")
    /\ UNCHANGED <<output_xml_dir, output_meshes_dir, osm_files, dirs>>
    /\ UNCHANGED <<ov_vars, mesh_vars, height_vars, tx_vars, dl_vars, fr_vars, mk_vars>>

\* lines 144-146: the file is read and no footprint was accepted
NoBuildings ==
    /\ pc = "ways"
    /\ buildings = <<>>
    /\ Return("no_buildings")
    /\ UNCHANGED <<output_xml_dir, output_meshes_dir, osm_files, fs, written, dirs>>
    /\ UNCHANGED <<ov_vars, mesh_vars, height_vars, tx_vars, dl_vars, fr_vars, mk_vars>>

\* lines 148-195: translation and clipping
ClipBuildings ==
    /\ pc = "ways"
    /\ buildings # <<>>
    /\ \E out \in {clip_loop(translated_buildings(buildings), 1)} :
           IF out = <<>>
           THEN Return("no_clipped")
           ELSE /\ clipped_buildings' =
                      [k \in 1..Len(out) |->
                          [coords |-> out[k].coords, height |-> out[k].height]]
                /\ clip_src' = [k \in 1..Len(out) |-> out[k].src]
                /\ pc' = "export_buildings"
                /\ UNCHANGED <<file_idx, origin, buildings, src_ways,
                               outcome>>
    /\ UNCHANGED <<output_xml_dir, output_meshes_dir, osm_files, fs, written, dirs>>
    /\ UNCHANGED <<ov_vars, mesh_vars, height_vars, tx_vars, dl_vars, fr_vars, mk_vars>>

\* lines 198-206: the meshes, and the export of the buildings mesh
ExportBuildings ==
    /\ pc = "export_buildings"
    /\ \E meshes \in {meshes_of(clipped_buildings, 1)} :
           IF meshes = <<>>
           THEN /\ Return("no_meshes")
                /\ UNCHANGED <<fs, written>>
           ELSE /\ Write(Join(output_meshes_dir, building_filename(file_idx)),
                         PlyFile(file_idx, "buildings"))
                /\ pc' = "export_ground"
                /\ UNCHANGED <<file_idx, origin, buildings, src_ways,
                               clipped_buildings, clip_src, outcome>>
    /\ UNCHANGED <<output_xml_dir, output_meshes_dir, osm_files, dirs>>
    /\ UNCHANGED <<ov_vars, mesh_vars, height_vars, tx_vars, dl_vars, fr_vars, mk_vars>>

\* lines 208-218: the ground plane
ExportGround ==
    /\ pc = "export_ground"
    /\ Write(Join(output_meshes_dir, ground_filename(file_idx)),
             PlyFile(file_idx, "ground"))
    /\ pc' = "write_xml"
    /\ UNCHANGED <<output_xml_dir, output_meshes_dir, osm_files, file_idx,
                   origin, buildings, src_ways, clipped_buildings,
                   clip_src, dirs, outcome>>
    /\ UNCHANGED <<ov_vars, mesh_vars, height_vars, tx_vars, dl_vars, fr_vars, mk_vars>>

\* lines 221-255: the scene file
WriteXml ==
    /\ pc = "write_xml"
    /\ Write(Join(output_xml_dir, xml_filename(file_idx)), xml_content(file_idx))
    /\ Return("ok")
    /\ UNCHANGED <<output_xml_dir, output_meshes_dir, osm_files, dirs>>
    /\ UNCHANGED <<ov_vars, mesh_vars, height_vars, tx_vars, dl_vars, fr_vars, mk_vars>>

\* lines 198-250 and 264-265: polygon_to_mesh, concatenate, export, open or
\* write raises.  No try encloses these calls, in process_single_file or in
\* the loop over the files: the exception leaves process_all_osm_files.
ExportFails ==
    /\ pc \in {"export_buildings", "export_ground", "write_xml"}
    /\ outcome' = [outcome EXCEPT ![file_idx] = "export_failed"]
    /\ pc' = "crashed"
    /\ UNCHANGED <<output_xml_dir, output_meshes_dir, osm_files, file_idx,
                   origin, buildings, src_ways, clipped_buildings, clip_src,
                   fs, written, dirs>>
    /\ UNCHANGED <<ov_vars, mesh_vars, height_vars, tx_vars, dl_vars, fr_vars, mk_vars>>

Next ==
    \/ Start
    \/ ReadFails
    \/ NoValidNode
    \/ \E o \in Origins : RefFound(o)
    \/ \E w \in WaysOf(file_idx) : way(w)
    \/ ParseFails
    \/ NoBuildings
    \/ ClipBuildings
    \/ ExportBuildings
    \/ ExportGround
    \/ WriteXml
    \/ ExportFails

Spec == Init /\ [][Next]_vars

\* the three artifacts of area a
Artifacts(a) ==
    {Join(output_meshes_dir, building_filename(a)),
     Join(output_meshes_dir, ground_filename(a)),
     Join(output_xml_dir, xml_filename(a))}

Position(p) == CHOOSE k \in 1..Len(written) : written[k] = p

\* C4: every clipped polygon has its vertices inside the window, at least
\* three vertices with the closing vertex removed, and the height of the
\* footprint it was clipped from; a footprint that lies entirely beyond the
\* window gives no clipped polygon.
EntirelyOutside(verts) ==
    \/ \A k \in 1..Len(verts) : verts[k][1] > MapSize
    \/ \A k \in 1..Len(verts) : verts[k][2] > MapSize

C4_ClipContract ==
    /\ \A k \in 1..Len(clipped_buildings) :
          LET coords == clipped_buildings[k].coords
          IN  /\ \A i \in 1..Len(coords) :
                    coords[i][1] \in 0..MapSize /\ coords[i][2] \in 0..MapSize
              /\ Len(coords) >= 3
              /\ coords[1] # coords[Len(coords)]
              /\ clip_src[k] \in 1..Len(buildings)
              /\ clipped_buildings[k].height = buildings[clip_src[k]].height
    /\ clipped_buildings # <<>> =>
          \A i \in 1..Len(buildings) :
              EntirelyOutside(translated_buildings(buildings)[i].verts)
                  => i \notin Range(clip_src)

\* a footprint that crosses the window's border is cut at MapSize, keeps its
\* height 12, and a second footprint beyond the window gives nothing
C4_Witness ==
    /\ Len(buildings) = 2
    /\ \E k \in 1..Len(buildings[1].verts) : buildings[1].verts[k][1] - buildings[1].verts[1][1] > MapSize
    /\ EntirelyOutside(translated_buildings(buildings)[2].verts)
    /\ Len(clipped_buildings) = 1
    /\ clipped_buildings[1].height = Fin(12)
    /\ \E i \in 1..Len(clipped_buildings[1].coords) :
          clipped_buildings[1].coords[i][1] = MapSize

\* C6: an area that ends with no accepted footprint, with no footprint left
\* by the clipping, or with no mesh, has none of its three artifacts
\* written.
C6_NoPartialArtifacts ==
    \A a \in DOMAIN outcome :
        outcome[a] \in {"no_buildings", "no_clipped", "no_meshes"}
            => Artifacts(a) \cap DOMAIN fs = {}

\* one area ends with nothing left by the clipping and writes nothing, while
\* another area of the batch is written in full
C6_Witness ==
    /\ pc = "done"
    /\ \E a, b \in DOMAIN outcome :
          /\ outcome[a] = "no_clipped" /\ outcome[b] = "ok"
          /\ Artifacts(a) \cap DOMAIN fs = {}
          /\ Artifacts(b) \subseteq DOMAIN fs

\* C7: each filename a written scene file names, resolved against the
\* directory of the scene file, is a mesh file of the same area written
\* before the scene file.
C7_MeshRefsResolve ==
    \A p \in DOMAIN fs :
        fs[p].kind = "xml" =>
            \A s \in 1..Len(fs[p].shapes) :
                LET target == Resolve(p.dir, fs[p].shapes[s].filename)
                IN  /\ target \in DOMAIN fs
                    /\ fs[target].kind = "ply"
                    /\ fs[target].area = fs[p].area
                    /\ Position(target) < Position(p)

\* C10: every entry of the building list comes from a way that is tagged
\* 'building', is closed and has at least three resolved points (so a way
\* that is untagged, open or has fewer leaves the list as it was), and the
\* ring of the entry has at least three distinct points.
C10_AcceptedFootprints ==
    \A i \in 1..Len(buildings) :
        /\ "building" \in DOMAIN src_ways[i].tags
        /\ is_closed(src_ways[i])
        /\ Len(SelectSeq(src_ways[i].nodes, LAMBDA n : n.valid)) >= 3
        /\ Cardinality(Range(buildings[i].verts)) >= 3

\* C12: a written scene file binds the ground mesh and the buildings mesh to
\* two different materials, each defined in the same file.
C12_TwoMaterials ==
    \A p \in DOMAIN fs :
        fs[p].kind = "xml" =>
            \E g, b \in 1..Len(fs[p].shapes) :
                /\ fs[p].shapes[g].filename.name = ground_filename(fs[p].area)
                /\ fs[p].shapes[b].filename.name = building_filename(fs[p].area)
                /\ fs[p].shapes[g].bsdf \in fs[p].bsdfs
                /\ fs[p].shapes[b].bsdf \in fs[p].bsdfs
                /\ fs[p].shapes[g].bsdf # fs[p].shapes[b].bsdf

\* C13: a failure in one area never stops the batch: when
\* process_all_osm_files has stopped, every area of the list has been
\* processed.
C13_BatchContinues ==
    pc \in {"done", "crashed"} =>
        \A a \in 1..osm_files : outcome[a] # "pending"

\* the failures that are caught: when the batch ends after an unreadable
\* file, a file without coordinates or a parse error, every area has been
\* processed
C13_CaughtFailuresContinue ==
    pc = "done" => \A a \in 1..osm_files : outcome[a] # "pending"

\* C14: a polygon the clipper has output, clipped again against the same
\* window, gives exactly one polygon, with the same vertices and the same
\* number of them.
C14_ClipIdempotent ==
    pc = "export_buildings" =>
    \A k \in 1..Len(clipped_buildings) :
        \E again \in {clip_one(clipped_buildings[k].coords,
                               clipped_buildings[k].height, k)} :
            /\ Len(again) = 1
            /\ Range(again[1].coords) = Range(clipped_buildings[k].coords)
            /\ Len(again[1].coords) = Len(clipped_buildings[k].coords)

\* the two towers the window cuts out of the arch: each has a vertex on the
\* window's border and clips to itself
C14_Witness ==
    /\ pc = "export_buildings"
    /\ Len(clipped_buildings) = 2
    /\ clip_src = <<1, 1>>
    /\ \A k \in 1..2 :
          /\ \E i \in 1..Len(clipped_buildings[k].coords) :
                clipped_buildings[k].coords[i][2] = MapSize
          /\ Len(clip_one(clipped_buildings[k].coords,
                          clipped_buildings[k].height, k)) = 1

(***************************************************************************)
(* The 2D occupancy mask of the same file, osmto2d.py lines 60-103.  Its   *)
(* projector has the origin of process_single_file (the first valid node), *)
(* and a way it keeps is a way BuildingHandler.way keeps, so the polygons  *)
(* are computed from src_ways.                                             *)
(***************************************************************************)
\* BuildingExtractor.way, osmto2d.py lines 68-82, over the ways of the file:
\* the rings of the ways that give a valid polygon
RECURSIVE polygons(_, _, _)
polygons(ws, o, k) ==
    IF k > Len(ws) THEN <<>>
    ELSE LET w == ws[k]
             valid_nodes == SelectSeq(w.nodes, LAMBDA n : n.valid)
             coords == [i \in 1..Len(valid_nodes) |->
                          project(o, valid_nodes[i].lat, valid_nodes[i].lon)]
             keep == /\ "building" \in DOMAIN w.tags
                     /\ is_closed(w)
                     /\ Len(coords) >= 3
                     /\ is_valid(CloseRing(coords))
                     /\ PolyCells(CloseRing(coords)) # {}
         IN  (IF keep THEN <<CloseRing(coords)>> ELSE <<>>) \o polygons(ws, o, k + 1)

\* osmto2d.py lines 95-97: the offset of the mask
mask_offset(polys) ==
    LET all_x == UNION {{polys[i][k][1] : k \in 1..Len(polys[i])} : i \in 1..Len(polys)}
        all_y == UNION {{polys[i][k][2] : k \in 1..Len(polys[i])} : i \in 1..Len(polys)}
    IN  <<SetMin(all_x), SetMin(all_y)>>

\* osm2xml.py lines 154-156: the offset of the scene
scene_offset(bs) ==
    LET all_x == UNION {{bs[i].verts[k][1] : k \in 1..Len(bs[i].verts)} :
                          i \in 1..Len(bs)}
        all_y == UNION {{bs[i].verts[k][2] : k \in 1..Len(bs[i].verts)} :
                          i \in 1..Len(bs)}
    IN  <<SetMin(all_x), SetMin(all_y)>>

\* C19: when a scene is built from a file and a mask is drawn from it, both
\* subtract the same offset (x_min, y_min), whatever the building ways of
\* the file are.
C19_SameOffset ==
    (/\ pc \in {"export_buildings", "export_ground", "write_xml"}
     /\ polygons(src_ways, origin, 1) # <<>>)
        => scene_offset(buildings) = mask_offset(polygons(src_ways, origin, 1))

\* the offsets agree when every footprint the scene accepts is a valid
\* polygon
C19_SameOffsetValidRings ==
    (/\ pc \in {"export_buildings", "export_ground", "write_xml"}
     /\ Len(polygons(src_ways, origin, 1)) = Len(buildings))
        => scene_offset(buildings) = mask_offset(polygons(src_ways, origin, 1))

(***************************************************************************)
(* Transmitter placement, RT.py lines 27-39 and 105-146.                   *)
(*                                                                         *)
(* Coordinates are binary floating-point numbers m * 2^e, rounded to the   *)
(* nearest, ties to even, with a significand of SigBits bits in place of   *)
(* the 53 of a double.  All of them are >= 0: the scene starts at 0.       *)
(***************************************************************************)
SigBits == 7
MaskW == 5       \* columns of the mask
MaskH == 1       \* rows of the mask
SceneSize == 3   \* x_max and y_max of the scene bounds; x_min = y_min = 0
MaxRetries == 2  \* the argument max_retries

RECURSIVE Pow2(_)
Pow2(n) == IF n = 0 THEN 1 ELSE 2 * Pow2(n - 1)

RECURSIVE BitLen(_)
BitLen(n) == IF n = 0 THEN 0 ELSE 1 + BitLen(n \div 2)

BZero == [m |-> 0, e |-> 0]

\* n * 2^e rounded to SigBits bits
BRound(n, e) ==
    IF n = 0 THEN BZero
    ELSE LET k == BitLen(n) - SigBits
         IN  IF k <= 0 THEN [m |-> n * Pow2(-k), e |-> e + k]
             ELSE LET q == n \div Pow2(k)
                      r == n % Pow2(k)
                      half == Pow2(k - 1)
                      up == r > half \/ (r = half /\ q % 2 = 1)
                      mm == IF up THEN q + 1 ELSE q
                  IN  IF mm = Pow2(SigBits)
                      THEN [m |-> Pow2(SigBits - 1), e |-> e + k + 1]
                      ELSE [m |-> mm, e |-> e + k]

\* float(n) of an integer n >= 0
BFloat(n) == BRound(n, 0)

BMul(a, b) == BRound(a.m * b.m, a.e + b.e)

\* a / b, b # 0: the quotient to SigBits + 2 bits and a sticky bit
BDiv(a, b) ==
    IF a.m = 0 THEN BZero
    ELSE LET n == a.m * Pow2(SigBits + 2)
             sticky == IF n % b.m = 0 THEN 0 ELSE 1
         IN  BRound(2 * (n \div b.m) + sticky, a.e - b.e - SigBits - 3)

BAdd(a, b) ==
    IF a.m = 0 THEN b
    ELSE IF b.m = 0 THEN a
    ELSE LET lo == Min2(a.e, b.e)
         IN  BRound(a.m * Pow2(a.e - lo) + b.m * Pow2(b.e - lo), lo)

\* a - b for a >= b
BSub(a, b) ==
    IF b.m = 0 THEN a
    ELSE LET lo == Min2(a.e, b.e)
         IN  BRound(a.m * Pow2(a.e - lo) - b.m * Pow2(b.e - lo), lo)

BLess(a, b) ==
    LET lo == Min2(a.e, b.e)
    IN  a.m * Pow2(a.e - lo) < b.m * Pow2(b.e - lo)

\* int(a): truncation
BTrunc(a) == IF a.e >= 0 THEN a.m * Pow2(a.e) ELSE a.m \div Pow2(-a.e)

\* get_scene_bounds: the ground plane spans the scene
x_min == BZero
x_max == BFloat(SceneSize)
y_min == BZero
y_max == BFloat(SceneSize)

\* int(np.clip(c, 0, size - 1))
ClipToPixel(c, size) ==
    IF BLess(BFloat(size - 1), c) THEN size - 1 ELSE BTrunc(c)

\* world_to_pixel, lines 27-30: <<u, v>>; x0, x1, y0, y1 are the arguments
\* x_min, x_max, y_min, y_max
world_to_pixel(x, y, x0, x1, y0, y1, img_width, img_height) ==
    <<ClipToPixel(BMul(BDiv(BSub(x, x0), BSub(x1, x0)),
                       BFloat(img_width)), img_width),
      ClipToPixel(BMul(BDiv(BSub(y, y0), BSub(y1, y0)),
                       BFloat(img_height)), img_height)>>

\* building_mask.shape: <<H, W>>
shape(mask) ==
    <<1 + SetMax({px[1] : px \in DOMAIN mask}), 1 + SetMax({px[2] : px \in DOMAIN mask})>>

\* is_point_in_building, lines 33-39: building_mask[v, u]
is_point_in_building(x, y, x0, x1, y0, y1, mask) ==
    LET HW == shape(mask)
        uv == world_to_pixel(x, y, x0, x1, y0, y1, HW[2], HW[1])
    IN  mask[<<uv[2], uv[1]>>]

Pixels == (0..(MaskH - 1)) \X (0..(MaskW - 1))

\* np.argwhere(~building_mask)
non_building_pixels(mask) == {px \in Pixels : ~mask[px]}

\* lines 120-121: the world position of the pixel <<v, u>>
FallbackPosition(px) ==
    <<BAdd(x_min, BMul(BDiv(BFloat(px[2]), BFloat(MaskW)), BSub(x_max, x_min))),
      BAdd(y_min, BMul(BDiv(BFloat(px[1]), BFloat(MaskH)), BSub(y_max, y_min)))>>

\* values np.random.uniform may return: the half units of the scene
Uniform == {BDiv(BFloat(k), BFloat(2)) : k \in 0..(2 * SceneSize - 1)}

\* masks with the first two columns free or not, the others like the second
InitTx ==
    /\ \E free \in SUBSET (0..(Min2(MaskW, 3) - 1)) :
          building_mask = [px \in Pixels |-> Min2(px[2], 2) \notin free]
    /\ tx_positions = <<>>
    /\ tx_i = 0
    /\ attempt = 0
    /\ draws = 0
    /\ scene_tx = <<>>
    /\ tx_pc = "place"
    /\ OvIdle /\ MeshIdle /\ HeightIdle /\ PipeIdle /\ DlIdle /\ FrIdle /\ MkIdle

\* one pass of the retry loop, lines 108-113
DrawPosition(x, y) ==
    /\ tx_pc = "place"
    /\ draws' = draws + 1
    /\ IF ~is_point_in_building(x, y, x_min, x_max, y_min, y_max, building_mask)
       THEN /\ tx_positions' = Append(tx_positions, <<x, y>>)
            /\ attempt' = 0
            /\ tx_i' = tx_i + 1
            /\ tx_pc' = IF tx_i + 1 = NumTx THEN "placed" ELSE "place"
       ELSE /\ attempt' = attempt + 1
            /\ tx_pc' = IF attempt + 1 = MaxRetries THEN "fallback" ELSE "place"
            /\ UNCHANGED <<tx_positions, tx_i>>
    /\ UNCHANGED <<building_mask, scene_tx>>
    /\ UNCHANGED <<ov_vars, mesh_vars, height_vars, pipe_vars, dl_vars, fr_vars, mk_vars>>

\* the else of the retry loop, lines 114-123, with the mask all building
FallbackRaises ==
    /\ tx_pc = "fallback"
    /\ non_building_pixels(building_mask) = {}
    /\ tx_pc' = "raised"
    /\ UNCHANGED <<building_mask, tx_positions, tx_i, attempt, draws, scene_tx>>
    /\ UNCHANGED <<ov_vars, mesh_vars, height_vars, pipe_vars, dl_vars, fr_vars, mk_vars>>

\* the else of the retry loop, lines 114-123, with the pixel randint picks
Fallback(px) ==
    /\ tx_pc = "fallback"
    /\ px \in non_building_pixels(building_mask)
    /\ tx_positions' = Append(tx_positions, FallbackPosition(px))
    /\ attempt' = 0
    /\ tx_i' = tx_i + 1
    /\ tx_pc' = IF tx_i + 1 = NumTx THEN "placed" ELSE "place"
    /\ UNCHANGED <<building_mask, draws, scene_tx>>
    /\ UNCHANGED <<ov_vars, mesh_vars, height_vars, pipe_vars, dl_vars, fr_vars, mk_vars>>

\* lines 125-146: the transmitters are added to the scene
AddTransmitters ==
    /\ tx_pc = "placed"
    /\ scene_tx' = tx_positions
    /\ tx_pc' = "added"
    /\ UNCHANGED <<building_mask, tx_positions, tx_i, attempt, draws>>
    /\ UNCHANGED <<ov_vars, mesh_vars, height_vars, pipe_vars, dl_vars, fr_vars, mk_vars>>

NextTx ==
    \/ \E x \in Uniform, y \in Uniform : DrawPosition(x, y)
    \/ FallbackRaises
    \/ \E px \in Pixels : Fallback(px)
    \/ AddTransmitters

SpecTx == InitTx /\ [][NextTx]_vars

AtFreePixel(pos) ==
    ~is_point_in_building(pos[1], pos[2], x_min, x_max, y_min, y_max, building_mask)

\* C15: the placement uses at most num_tx * max_retries draws; when it is
\* over there are exactly num_tx positions, each at a pixel that
\* world_to_pixel maps to a non-building pixel, or RuntimeError was raised
\* and the mask has no non-building pixel; no transmitter is added to the
\* scene at a building pixel.
C15_TxPlacement ==
    /\ draws <= NumTx * MaxRetries
    /\ tx_pc \in {"placed", "added"} =>
          /\ Len(tx_positions) = NumTx
          /\ \A k \in 1..Len(tx_positions) : AtFreePixel(tx_positions[k])
    /\ tx_pc = "raised" => non_building_pixels(building_mask) = {}
    /\ \A k \in 1..Len(scene_tx) : AtFreePixel(scene_tx[k])

\* the same with the fallback's positions taken by their pixel: the pixel
\* the fallback picked is a non-building pixel
C15_PositionsFromFreeDrawsOrPixels ==
    tx_pc \in {"placed", "added"} =>
        \A k \in 1..Len(tx_positions) :
            \/ AtFreePixel(tx_positions[k])
            \/ \E px \in non_building_pixels(building_mask) :
                  tx_positions[k] = FallbackPosition(px)

(***************************************************************************)
(* download_osm_tiles, download_osm.py lines 9-90.  The tiles that pass    *)
(* the test of line 56 are numbered 0 .. NumTiles - 1 in the order of the  *)
(* two loops; tile t is stored as the file named t with four digits.       *)
(* Opening and writing the file of a tile succeed.                         *)
(***************************************************************************)
NumTiles == 2      \* tiles of the bounding box
DlMaxRetries == 2  \* the argument max_retries

Tiles == 0..(NumTiles - 1)

\* what requests.get may do: a 200 with b"<osm" in the content, a 200
\* without it, a 400, another status, or an exception
Responses == {"200_osm", "200_other", "400", "500", "exception"}

\* Mutant: the retry loop does not break on a 400
EndsRetriesNot400(resp, att) ==
    resp = "200_osm" \/ att = DlMaxRetries - 1

\* the retry loop stops after this response: the break of line 77, the
\* break of line 80, or the last attempt of range(max_retries)
EndsRetries(resp, att) ==
    resp = "200_osm" \/ resp = "400" \/ att = DlMaxRetries - 1

InitDownload ==
    /\ dl_files \in SUBSET Tiles
    /\ dl_initial = dl_files
    /\ tile_count = 0
    /\ dl_attempt = 0
    /\ resp_log = [t \in Tiles |-> <<>>]
    /\ success_count = 0
    /\ dl_pc = "tiles"
    /\ OvIdle /\ MeshIdle /\ HeightIdle /\ PipeIdle /\ TxIdle /\ FrIdle /\ MkIdle

\* lines 60-65: the file of the next tile exists
SkipExisting ==
    /\ dl_pc = "tiles"
    /\ tile_count < NumTiles
    /\ dl_attempt = 0
    /\ tile_count \in dl_files
    /\ success_count' = success_count + 1
    /\ tile_count' = tile_count + 1
    /\ UNCHANGED <<dl_files, dl_initial, dl_attempt, resp_log, dl_pc>>
    /\ UNCHANGED <<ov_vars, mesh_vars, height_vars, pipe_vars, tx_vars, fr_vars, mk_vars>>

\* lines 67-87: one pass of the retry loop for the next tile
Request(resp) ==
    /\ dl_pc = "tiles"
    /\ tile_count < NumTiles
    /\ dl_attempt > 0 \/ tile_count \notin dl_files
    /\ resp_log' = [resp_log EXCEPT ![tile_count] = Append(@, resp)]
    /\ dl_files' = IF resp = "200_osm" THEN dl_files \cup {tile_count}
                   ELSE dl_files
    /\ success_count' = IF resp = "200_osm" THEN success_count + 1
                        ELSE success_count
    /\ IF EndsRetries(resp, dl_attempt)
       THEN tile_count' = tile_count + 1 /\ dl_attempt' = 0
       ELSE tile_count' = tile_count /\ dl_attempt' = dl_attempt + 1
    /\ UNCHANGED <<dl_initial, dl_pc>>
    /\ UNCHANGED <<ov_vars, mesh_vars, height_vars, pipe_vars, tx_vars, fr_vars, mk_vars>>

\* lines 89-90
ReturnCount ==
    /\ dl_pc = "tiles"
    /\ tile_count = NumTiles
    /\ dl_pc' = "returned"
    /\ UNCHANGED <<dl_files, dl_initial, tile_count, dl_attempt, resp_log,
                   success_count>>
    /\ UNCHANGED <<ov_vars, mesh_vars, height_vars, pipe_vars, tx_vars, fr_vars, mk_vars>>

NextDownload ==
    \/ SkipExisting
    \/ \E resp \in Responses : Request(resp)
    \/ ReturnCount

SpecDownload == InitDownload /\ [][NextDownload]_vars

MaxFileNo == 2   \* largest number of a file of the directory

\* f"{idx:04d}.osm" (lines 60, 150)
Pad4(idx) ==
    (IF idx < 10 THEN "000"
     ELSE IF idx < 100 THEN "00"
     ELSE IF idx < 1000 THEN "0" ELSE "") \o ToString(idx) \o ".osm"

\* a numeric name that is not padded
Plain(n) == ToString(n) \o ".osm"

NumericNames == {Pad4(n) : n \in 0..MaxFileNo} \cup {Plain(MaxFileNo)}

OsmNames == NumericNames \cup {"demo.osm"}

\* the numbers of the files before and after the renaming
FileNumbers == 0..(MaxFileNo + 1)

\* int(f.stem) of line 110 does not raise ValueError
HasNumber(name) == \E n \in FileNumbers : name \in {Pad4(n), Plain(n)}

\* int(f.stem) of line 110; None stands for the ValueError
StemInt(name) ==
    IF HasNumber(name)
    THEN CHOOSE n \in FileNumbers : name \in {Pad4(n), Plain(n)}
    ELSE None

\* what the test of lines 119-143 finds in a file
Findings == {"valid", "small", "no_multipolygons", "no_building", "unreadable"}

Without(dir, name) == [n \in DOMAIN dir \ {name} |-> dir[n]]

With(dir, name, content) ==
    [n \in DOMAIN dir \cup {name} |-> IF n = name THEN content ELSE dir[n]]

Perms(S) ==
    {s \in [1..Cardinality(S) -> S] : \A i, j \in 1..Cardinality(S) : s[i] = s[j] => i = j}

\* Mutant: the list of line 111 without the sort of line 114
glob_order(names) == Perms(names)

\* lines 114-115: the orders list.sort(key = number) can give to the files
\* that glob yields in any order
sort_by_number(names) ==
    {s \in Perms(names) : \A i, j \in 1..Len(s) : i < j => StemInt(s[i]) <= StemInt(s[j])}

InitFilter ==
    /\ \E names \in SUBSET OsmNames :
         \E found \in [names -> Findings] :
            /\ \A n \in names : ~HasNumber(n) => found[n] = "valid"
            /\ osm_path = [n \in names |-> [name |-> n, finding |-> found[n]]]
    /\ temp_dir = None
    /\ fr_initial = osm_path
    /\ all_osm = <<>>
    /\ valid_files = <<>>
    /\ fr_i = 0
    /\ fr_pc = "glob"
    /\ fr_return = None
    /\ OvIdle /\ MeshIdle /\ HeightIdle /\ PipeIdle /\ TxIdle /\ DlIdle /\ MkIdle

\* lines 106-115
GlobNumbered ==
    /\ fr_pc = "glob"
    /\ all_osm' \in sort_by_number({n \in DOMAIN osm_path : HasNumber(n)})
    /\ fr_i' = 1
    /\ fr_pc' = "scan"
    /\ UNCHANGED <<osm_path, temp_dir, fr_initial, valid_files, fr_return>>
    /\ UNCHANGED <<ov_vars, mesh_vars, height_vars, pipe_vars, tx_vars, dl_vars, mk_vars>>

\* lines 118-143, one file: it is kept in valid_files or unlinked
ScanFile ==
    /\ fr_pc = "scan"
    /\ fr_i <= Len(all_osm)
    /\ LET f == all_osm[fr_i] IN
         IF osm_path[f].finding = "valid"
         THEN /\ valid_files' = Append(valid_files, f)
              /\ osm_path' = osm_path
         ELSE /\ valid_files' = valid_files
              /\ osm_path' = Without(osm_path, f)
    /\ fr_i' = fr_i + 1
    /\ UNCHANGED <<temp_dir, fr_initial, all_osm, fr_pc, fr_return>>
    /\ UNCHANGED <<ov_vars, mesh_vars, height_vars, pipe_vars, tx_vars, dl_vars, mk_vars>>

\* lines 146-147
MkTempDir ==
    /\ fr_pc = "scan"
    /\ fr_i > Len(all_osm)
    /\ temp_dir' = IF temp_dir = None THEN <<>> ELSE temp_dir
    /\ fr_i' = 1
    /\ fr_pc' = "to_temp"
    /\ UNCHANGED <<osm_path, fr_initial, all_osm, valid_files, fr_return>>
    /\ UNCHANGED <<ov_vars, mesh_vars, height_vars, pipe_vars, tx_vars, dl_vars, mk_vars>>

\* lines 149-152, one file
MoveToTemp ==
    /\ fr_pc = "to_temp"
    /\ fr_i <= Len(valid_files)
    /\ LET f == valid_files[fr_i] IN
         /\ temp_dir' = With(temp_dir, Pad4(fr_i - 1), osm_path[f])
         /\ osm_path' = Without(osm_path, f)
    /\ fr_i' = fr_i + 1
    /\ UNCHANGED <<fr_initial, all_osm, valid_files, fr_pc, fr_return>>
    /\ UNCHANGED <<ov_vars, mesh_vars, height_vars, pipe_vars, tx_vars, dl_vars, mk_vars>>

\* lines 154-157: every *.osm file left in the directory is unlinked
ClearDirectory ==
    /\ fr_pc = "to_temp"
    /\ fr_i > Len(valid_files)
    /\ osm_path' = <<>>
    /\ fr_pc' = "move_back"
    /\ UNCHANGED <<temp_dir, fr_initial, all_osm, valid_files, fr_i, fr_return>>
    /\ UNCHANGED <<ov_vars, mesh_vars, height_vars, pipe_vars, tx_vars, dl_vars, mk_vars>>

\* lines 159-161, one file, in the order glob yields them
MoveBack ==
    /\ fr_pc = "move_back"
    /\ \E f \in DOMAIN temp_dir :
         /\ osm_path' = With(osm_path, f, temp_dir[f])
         /\ temp_dir' = Without(temp_dir, f)
    /\ UNCHANGED <<fr_initial, all_osm, valid_files, fr_i, fr_pc, fr_return>>
    /\ UNCHANGED <<ov_vars, mesh_vars, height_vars, pipe_vars, tx_vars, dl_vars, mk_vars>>

\* lines 163-166
RemoveTempAndReturn ==
    /\ fr_pc = "move_back"
    /\ DOMAIN temp_dir = {}
    /\ temp_dir' = None
    /\ fr_return' = Len(valid_files)
    /\ fr_pc' = "returned"
    /\ UNCHANGED <<osm_path, fr_initial, all_osm, valid_files, fr_i>>
    /\ UNCHANGED <<ov_vars, mesh_vars, height_vars, pipe_vars, tx_vars, dl_vars, mk_vars>>

NextFilter ==
    \/ GlobNumbered
    \/ ScanFile
    \/ MkTempDir
    \/ MoveToTemp
    \/ ClearDirectory
    \/ MoveBack
    \/ RemoveTempAndReturn

SpecFilter == InitFilter /\ [][NextFilter]_vars

\* the files of the directory at the call that have a number as name and
\* that the test judges valid
JudgedValid ==
    {n \in DOMAIN fr_initial : HasNumber(n) /\ fr_initial[n].finding = "valid"}

\* C17: when the function has returned k, the numerically named files are
\* 0000.osm .. (k-1).osm, their contents are those of the files judged
\* valid, each once, and a file with a smaller original number has a
\* smaller new number.
C17_Renumbered ==
    fr_pc = "returned" =>
       LET k == fr_return
           numbered == {n \in DOMAIN osm_path : HasNumber(n)}
       IN /\ numbered = {Pad4(i) : i \in 0..(k - 1)}
          /\ {osm_path[n].name : n \in numbered} = JudgedValid
          /\ Cardinality(JudgedValid) = k
          /\ \A a, b \in numbered :
                StemInt(osm_path[a].name) < StemInt(osm_path[b].name)
                   => StemInt(a) < StemInt(b)

\* files 0001, 0002 and 2 were valid and 0000 was not: the function has
\* returned 3 and the content of 0001.osm is now in 0000.osm
C17_Witness ==
    /\ fr_pc = "returned"
    /\ fr_return = 3
    /\ Pad4(0) \in DOMAIN fr_initial /\ fr_initial[Pad4(0)].finding = "small"
    /\ JudgedValid = {Pad4(1), Pad4(MaxFileNo), Plain(MaxFileNo)}
    /\ osm_path[Pad4(0)].name = Pad4(1)

\* C18: a file whose name is not a number is still in the directory, with
\* its content, when the function has returned.
C18_NonNumericUntouched ==
    fr_pc = "returned" =>
       \A n \in DOMAIN fr_initial :
          ~HasNumber(n) => n \in DOMAIN osm_path /\ osm_path[n] = fr_initial[n]

(***************************************************************************)
(* From the raster of generate_2d_map (osmto2d.py lines 109-118) to the    *)
(* test of RT.py (lines 27-39 and 75-78).  The image has MapSize rows and  *)
(* MapSize columns; the scene it is used with has the ground plane         *)
(* [0, MapSize] x [0, MapSize] as bounds.                                  *)
(***************************************************************************)
\* the rings of valid footprints after the translation: the least x and the
\* least y of the chosen rings are 0
Footprints ==
    { <<<<0, 0>>, <<2, 0>>, <<2, 2>>, <<0, 2>>, <<0, 0>>>>,
      <<<<0, 0>>, <<6, 0>>, <<6, 1>>, <<0, 1>>, <<0, 0>>>>,
      <<<<0, 1>>, <<MapSize, 1>>, <<MapSize, MapSize - 1>>, <<0, MapSize - 1>>, <<0, 1>>>>,
      <<<<1, 2>>, <<3, 2>>, <<3, 5>>, <<1, 5>>, <<1, 2>>>> }

RasterPixels == (0..(MapSize - 1)) \X (0..(MapSize - 1))

\* from_origin(west = 0, north = map_size, xsize = 1, ysize = 1): the centre
\* of the pixel <<row, col>>, coordinates doubled
PixelCentre2(px) == <<2 * px[2] + 1, 2 * MapSize - 2 * px[1] - 1>>

\* rasterize, lines 111-117: a pixel is burned when its centre is inside a
\* polygon; the centre of the pixel is the centre of one unit cell
rasterize(polys) ==
    [px \in RasterPixels |->
        IF \E ring \in polys :
              <<(PixelCentre2(px)[1] - 1) \div 2, (PixelCentre2(px)[2] - 1) \div 2>>
                 \in PolyCells(ring)
        THEN 1 ELSE 0]

\* the pixel in which the transform places the world point <<x, y>>
rowcol(x, y) == <<MapSize - 1 - BTrunc(y), BTrunc(x)>>

\* world points: the half units of the scene, its upper bounds left out
WorldCoords == {BDiv(BFloat(k), BFloat(2)) : k \in 0..(2 * MapSize - 1)}

InitMask ==
    /\ translated_polygons \in SUBSET Footprints
    /\ translated_polygons # {}
    /\ \E ring \in translated_polygons : \E k \in 1..Len(ring) : ring[k][1] = 0
    /\ \E ring \in translated_polygons : \E k \in 1..Len(ring) : ring[k][2] = 0
    /\ raster_img = <<>>
    /\ png = <<>>
    /\ loaded_mask = <<>>
    /\ q_point = None
    /\ q_result = None
    /\ mk_pc = "rasterize"
    /\ OvIdle /\ MeshIdle /\ HeightIdle /\ PipeIdle /\ TxIdle /\ DlIdle /\ FrIdle

\* osmto2d.py lines 109-117
Rasterize ==
    /\ mk_pc = "rasterize"
    /\ raster_img' = rasterize(translated_polygons)
    /\ mk_pc' = "save"
    /\ UNCHANGED <<translated_polygons, png, loaded_mask, q_point, q_result>>
    /\ UNCHANGED <<ov_vars, mesh_vars, height_vars, pipe_vars, tx_vars, dl_vars, fr_vars>>

\* osmto2d.py line 118: plt.imsave with the gray map, 0 black and 1 white;
\* row 0 of the array is the top row of the image
SaveImage ==
    /\ mk_pc = "save"
    /\ png' = [px \in DOMAIN raster_img |-> IF raster_img[px] >= 1 THEN 255 ELSE 0]
    /\ mk_pc' = "load"
    /\ UNCHANGED <<translated_polygons, raster_img, loaded_mask, q_point, q_result>>
    /\ UNCHANGED <<ov_vars, mesh_vars, height_vars, pipe_vars, tx_vars, dl_vars, fr_vars>>

\* RT.py lines 75-78
LoadMask ==
    /\ mk_pc = "load"
    /\ loaded_mask' = [px \in DOMAIN png |-> png[px] = 255]
    /\ mk_pc' = "query"
    /\ UNCHANGED <<translated_polygons, raster_img, png, q_point, q_result>>
    /\ UNCHANGED <<ov_vars, mesh_vars, height_vars, pipe_vars, tx_vars, dl_vars, fr_vars>>

\* RT.py line 111: is_point_in_building for a point of the scene
AskPoint(x, y) ==
    /\ mk_pc = "query"
    /\ q_point' = <<x, y>>
    /\ q_result' = is_point_in_building(x, y, BZero, BFloat(MapSize),
                                        BZero, BFloat(MapSize), loaded_mask)
    /\ UNCHANGED <<translated_polygons, raster_img, png, loaded_mask, mk_pc>>
    /\ UNCHANGED <<ov_vars, mesh_vars, height_vars, pipe_vars, tx_vars, dl_vars, fr_vars>>

NextMask ==
    \/ Rasterize
    \/ SaveImage
    \/ LoadMask
    \/ \E x, y \in WorldCoords : AskPoint(x, y)

SpecMask == InitMask /\ [][NextMask]_vars

\* C20: is_point_in_building is true exactly when the point lies in a cell
\* that the rasterizer burned as building: the pixel world_to_pixel computes
\* is the pixel in which the rasterizer placed the cell of the point.
C20_PointInRasterizedCell ==
    q_point # None =>
        /\ q_result = (raster_img[rowcol(q_point[1], q_point[2])] = 1)
        /\ LET uv == world_to_pixel(q_point[1], q_point[2], BZero, BFloat(MapSize),
                                    BZero, BFloat(MapSize), MapSize, MapSize)
           IN  <<uv[2], uv[1]>> = rowcol(q_point[1], q_point[2])

\* the column world_to_pixel computes is the column of the rasterizer
C20_SameColumn ==
    q_point # None =>
        world_to_pixel(q_point[1], q_point[2], BZero, BFloat(MapSize),
                       BZero, BFloat(MapSize), MapSize, MapSize)[1]
            = rowcol(q_point[1], q_point[2])[2]

====
